---- MODULE Spec2Model ----
(***************************************************************************)
(* Model of nilmtk.electricitymeter.ElectricityMeter: the two class-level  *)
(* dictionaries (meters, meter_devices), the per-object attributes (store, *)
(* keys, appliances, metadata) and the operations __init__, load, the      *)
(* properties identifier / upstream_meter / device, and the pipeline       *)
(* queries total_energy / good_sections / proportion_of_energy.            *)
(*                                                                         *)
(* Python values: None is the empty tuple, a present value v is <<v>>, so  *)
(* that dict.get(k) (None when the key is absent) is a record field.  A    *)
(* dict is a function whose DOMAIN is the set of its keys.  Every call     *)
(* leaves its outcome in the variable last: the exception class and        *)
(* message (err, msg), the returned value (ret) and the ordered list of    *)
(* collaborator events it caused (trace).                                  *)
(***************************************************************************)
EXTENDS Integers, Sequences, FiniteSets, TLC

VARIABLES constructed, store, keys, appliances, metadata,
          meters, meter_devices, last, calls

vars == <<constructed, store, keys, appliances, metadata,
          meters, meter_devices, last, calls>>

\* Number of constructor and load calls in a run (calls counts them).
MaxCalls == 5

None == <<>>
Some(v) == <<v>>

\* A call that raised nothing: its exception class and message are empty.
NoError == ""

\* The dict with no keys.
EmptyDict == [x \in {} |-> None]

\* The ElectricityMeter objects of a run.
MeterObjects == {"A", "B"}

\* The DataStore objects of a run.
Stores == {"S1", "S2"}

\* metadata = {}  (every .get() answers None)
EmptyMetadata ==
  [instance |-> None, building |-> None, dataset |-> None,
   submeter_of |-> None, upstream_meter_in_building |-> None,
   device_model |-> None, device |-> None,
   additional_channels |-> None, appliances |-> None]

Md(i, b, d) ==
  [EmptyMetadata EXCEPT !.instance = Some(i), !.building = Some(b),
                        !.dataset = Some(d)]

\* Metadata handed to the constructor by the caller.
ConstructMetadata ==
  { EmptyMetadata,
    [Md(2, 1, "D") EXCEPT !.submeter_of = Some(0)] }

\* Key strings, as the list of their path segments:
\* '/building1/electric/meter2' is <<"building", 1, "meter", 2>>.
KeySite == <<"building", 1, "meter", 1>>
KeySub == <<"building", 1, "meter", 2>>
KeyOther == <<"building", 2, "meter", 1>>
KeyBuilding == <<"building", 1>>
KeyStrings == {KeySite, KeySub, KeyOther, KeyBuilding}

\* datastore.Key(string): the parsed addressing fields of a key string.
Key(string) ==
  [building |-> string[2],
   meter |-> IF Len(string) >= 4 THEN Some(string[4]) ELSE None]

\* new_key_obj.meter = chan
SetMeter(key_obj, chan) == [key_obj EXCEPT !.meter = Some(chan)]

\* str(key_obj)
KeyToStr(key_obj) ==
  <<"building", key_obj.building>> \o
  (IF key_obj.meter = None THEN <<>> ELSE <<"meter", key_obj.meter[1]>>)

\* store.load_metadata('/').get('meter_devices', {})
RootMeterDevices(s) ==
  IF s = "S1" THEN ("EnviR" :> "ProfileP1")
  ELSE ("EnviR" :> "ProfileP2") @@ ("CC" :> "ProfileP3")

\* The keys each store holds metadata for.
StoreKeys(s) ==
  IF s = "S1" THEN {KeySite, KeySub, KeyOther, KeyBuilding}
  ELSE {KeySite, KeySub}

\* store.load_metadata(key) for a meter key
load_metadata(s, key) ==
  IF s = "S1" THEN
    CASE key = KeySite ->
           [Md(1, 1, "D") EXCEPT !.device_model = Some("EnviR")]
      [] key = KeySub ->
           [Md(2, 1, "D") EXCEPT !.device_model = Some("EnviR"),
                                 !.submeter_of = Some(1),
                                 !.additional_channels = Some(<<3, 4>>),
                                 !.appliances = Some(<<"fridge", "light">>)]
      [] key = KeyOther ->
           [Md(1, 2, "D") EXCEPT !.device_model = Some("CC"),
                                 !.submeter_of = Some(1),
                                 !.upstream_meter_in_building = Some(1),
                                 !.additional_channels = Some(<<3>>)]
      [] OTHER ->
           [Md(3, 1, "D") EXCEPT !.device_model = Some("EnviR")]
  ELSE
    CASE key = KeySite ->
           [Md(1, 1, "D") EXCEPT !.device_model = Some("EnviR"),
                                 !.submeter_of = Some(-1)]
      [] OTHER ->
           [Md(2, 1, "E") EXCEPT !.submeter_of = Some(1)]

\* ElectricityMeterID(md.get('instance'), md.get('building'), md.get('dataset'))
identifier(md) == <<md.instance, md.building, md.dataset>>

\* Register as setdefault would: an identity already present keeps its meter.
Register_KeepFirst(reg, id, meter) == reg @@ (id :> meter)

\* ElectricityMeter.meters[id] = meter
Register(reg, id, meter) == (id :> meter) @@ reg

\* The registry replaced by the store's device table instead of merged.
UpdateDevices_Replace(reg, new) == new

\* ElectricityMeter.meter_devices.update(new)
UpdateDevices(reg, new) == new @@ reg

Call(op, m, arg, err, msg, ret, trace) ==
  [op |-> op, m |-> m, arg |-> arg, err |-> err, msg |-> msg,
   ret |-> ret, trace |-> trace]

Init ==
  /\ constructed = [m \in MeterObjects |-> FALSE]
  /\ store = [m \in MeterObjects |-> None]
  /\ keys = [m \in MeterObjects |-> <<>>]
  /\ appliances = [m \in MeterObjects |-> <<>>]
  /\ metadata = [m \in MeterObjects |-> EmptyMetadata]
  /\ meters = EmptyDict
  /\ meter_devices = EmptyDict
  /\ last = Call("none", "", None, NoError, "", None, <<>>)
  /\ calls = 0

\* A constructor that registers the meter before it stores the metadata.
Construct_RegisterFirst(m, md) ==
  /\ ~constructed[m]
  /\ calls < MaxCalls
  /\ calls' = calls + 1
  /\ constructed' = [constructed EXCEPT ![m] = TRUE]
  /\ store' = [store EXCEPT ![m] = None]
  /\ keys' = [keys EXCEPT ![m] = <<>>]
  /\ appliances' = [appliances EXCEPT ![m] = <<>>]
  /\ metadata' = [metadata EXCEPT ![m] = md]
  /\ meters' = Register(meters, identifier(EmptyMetadata), m)
  /\ last' = Call("construct", m, md, NoError, "", None, <<>>)
  /\ UNCHANGED meter_devices

\* ElectricityMeter(metadata)
Construct(m, md) ==
  /\ ~constructed[m]
  /\ calls < MaxCalls
  /\ calls' = calls + 1
  /\ constructed' = [constructed EXCEPT ![m] = TRUE]
  /\ store' = [store EXCEPT ![m] = None]
  /\ keys' = [keys EXCEPT ![m] = <<>>]
  /\ appliances' = [appliances EXCEPT ![m] = <<>>]
  /\ metadata' = [metadata EXCEPT ![m] = md]
  /\ meters' = Register(meters, identifier(md), m)
  /\ last' = Call("construct", m, md, NoError, "", None, <<>>)
  /\ UNCHANGED meter_devices

\* self.keys after lines 97-103: the primary key, then one sibling key per
\* additional channel (the primary key with its meter field overwritten).
RECURSIVE ChannelKeys(_, _)
ChannelKeys(key_obj, chans) ==
  IF chans = <<>> THEN <<>>
  ELSE <<KeyToStr(SetMeter(key_obj, Head(chans)))>>
       \o ChannelKeys(key_obj, Tail(chans))

\* A loop that appends str(key_obj), the primary key, for every channel.
LoadKeys_AppendsPrimary(key, md) ==
  <<key>> \o [i \in 1..Len(IF md.additional_channels = None THEN <<>>
                           ELSE md.additional_channels[1]) |->
               KeyToStr(Key(key))]

LoadKeys(key, md) ==
  <<key>> \o ChannelKeys(Key(key),
                         IF md.additional_channels = None THEN <<>>
                         ELSE md.additional_channels[1])

\* Appliance(appliance_metadata): an appliance is known by its metadata.
Appliance(appliance_metadata) == [metadata |-> appliance_metadata]

RECURSIVE NewAppliances(_)
NewAppliances(entries) ==
  IF entries = <<>> THEN <<>>
  ELSE <<Appliance(Head(entries))>> \o NewAppliances(Tail(entries))

\* self.appliances after the loop of lines 110-111.
LoadAppliances(current, md) ==
  current \o NewAppliances(IF md.appliances = None THEN <<>>
                           ELSE md.appliances[1])

\* meter.load(store, key)
Load(m, s, key) ==
  /\ constructed[m]
  /\ calls < MaxCalls
  /\ calls' = calls + 1
  /\ LET md == load_metadata(s, key)
         key_obj == Key(key)
         devs == UpdateDevices(meter_devices, RootMeterDevices(s))
         repeat == \A n \in DOMAIN RootMeterDevices(s) :
                      n \in DOMAIN meter_devices
                      /\ meter_devices[n] = RootMeterDevices(s)[n]
         apps == LoadAppliances(appliances[m], md)
     IN /\ store' = [store EXCEPT ![m] = Some(s)]
        /\ UNCHANGED constructed
        /\ IF key_obj.meter = None
           THEN \* assert key_obj.meter is not None
                /\ metadata' = [metadata EXCEPT ![m] = md]
                /\ keys' = [keys EXCEPT ![m] = <<key>>]
                /\ last' = Call("load", m, <<s, key>>, "AssertionError", "",
                                None, <<>>)
                /\ UNCHANGED <<appliances, meters, meter_devices>>
           ELSE IF md.device_model = None
                   \/ md.device_model[1] \notin DOMAIN devs
           THEN \* self.metadata['device_model'] or meter_devices[device_model]
                /\ metadata' = [metadata EXCEPT ![m] = md]
                /\ keys' = [keys EXCEPT ![m] = LoadKeys(key, md)]
                /\ meter_devices' = devs
                /\ last' = Call("load", m, <<s, key>>, "KeyError", "",
                                Some(repeat), <<"merge">>)
                /\ UNCHANGED <<appliances, meters>>
           ELSE LET loaded == [md EXCEPT
                                 !.device = Some(devs[md.device_model[1]])]
                IN /\ metadata' = [metadata EXCEPT ![m] = loaded]
                   /\ keys' = [keys EXCEPT ![m] = LoadKeys(key, md)]
                   /\ meter_devices' = devs
                   /\ appliances' = [appliances EXCEPT ![m] = apps]
                   /\ meters' = Register(meters, identifier(loaded), m)
                   /\ last' = Call("load", m, <<s, key>>, NoError, "",
                                   Some(repeat), <<"merge">>)

Outcome(err, msg, ret, trace) ==
  [err |-> err, msg |-> msg, ret |-> ret, trace |-> trace]

\* An upstream identity that always takes the meter's own building.
id_of_upstream_OwnBuilding(md) ==
  <<md.submeter_of, identifier(md)[2], identifier(md)[3]>>

\* The identity looked up by upstream_meter (lines 129-134).
id_of_upstream(md) ==
  LET upstream_meter_in_building ==
        IF md.upstream_meter_in_building = None
        THEN identifier(md)[2]
        ELSE md.upstream_meter_in_building
  IN <<md.submeter_of, upstream_meter_in_building, identifier(md)[3]>>

\* upstream_meter with the validity test written "submeter_of < 0".
upstream_meter_ZeroAllowed(md, reg) ==
  IF md.submeter_of = None
  THEN Outcome("ValueError",
               "This meter has no 'submeter_of' metadata attribute.",
               None, <<>>)
  ELSE IF md.submeter_of[1] < 0
  THEN Outcome("ValueError", "'submeter_of' must be >= 1.", None, <<>>)
  ELSE IF id_of_upstream(md) \in DOMAIN reg
  THEN Outcome(NoError, "", Some(reg[id_of_upstream(md)]), <<"meters[]">>)
  ELSE Outcome("KeyError", "", None, <<"meters[]">>)

\* The property upstream_meter of a meter with metadata md, read while the
\* registry is reg.  "meters[]" in the trace is the registry lookup.
upstream_meter(md, reg) ==
  IF md.submeter_of = None
  THEN Outcome("ValueError",
               "This meter has no 'submeter_of' metadata attribute.",
               None, <<>>)
  ELSE IF md.submeter_of[1] <= 0
  THEN Outcome("ValueError", "'submeter_of' must be >= 1.", None, <<>>)
  ELSE IF id_of_upstream(md) \in DOMAIN reg
  THEN Outcome(NoError, "", Some(reg[id_of_upstream(md)]), <<"meters[]">>)
  ELSE Outcome("KeyError", "", None, <<"meters[]">>)

\* A device property that answers the profile cached in metadata['device'].
device_Cached(md, devs) ==
  IF md.device = None
  THEN Outcome("KeyError", "", None, <<>>)
  ELSE Outcome(NoError, "", md.device, <<>>)

\* The property device: looked up in the registry on every read.
device(md, devs) ==
  IF md.device_model = None \/ md.device_model[1] \notin DOMAIN devs
  THEN Outcome("KeyError", "", None, <<>>)
  ELSE Outcome(NoError, "", Some(devs[md.device_model[1]]), <<>>)

\* Energy (in kWh) the pipeline measures for the data under a key.
StoreEnergy(s, key) == IF s = "S2" /\ key = KeySite THEN 0 ELSE 5

\* pipeline.results after Pipeline(nodes).run(meter=self)
PipelineResults(nodes, s, key) ==
  [name \in {"energy", "good_sections"} |->
     IF name = "energy"
     THEN IF \E i \in 1..Len(nodes) : nodes[i] = "EnergyNode"
          THEN Some(StoreEnergy(s, key)) ELSE None
     ELSE IF \E i \in 1..Len(nodes) : nodes[i] = "LocateGoodSectionsNode"
          THEN Some(<<"TimeFrame">>) ELSE None]

\* _run_pipeline with the Pipeline built before the store is tested.
run_pipeline_GuardLate(st, ks, nodes) ==
  IF st = None
  THEN Outcome("RuntimeError",
               "'meter.store' is not set! Cannot process data without a DataStore!",
               None, <<"Pipeline()">>)
  ELSE Outcome(NoError, "", PipelineResults(nodes, st[1], ks[1]),
               <<"Pipeline()", "run()">>)

\* self._run_pipeline(nodes): the store guard, then the pipeline.
run_pipeline(st, ks, nodes) ==
  IF st = None
  THEN Outcome("RuntimeError",
               "'meter.store' is not set! Cannot process data without a DataStore!",
               None, <<>>)
  ELSE Outcome(NoError, "", PipelineResults(nodes, st[1], ks[1]),
               <<"Pipeline()", "run()">>)

\* total_energy(): the node objects are built, then _run_pipeline is called.
total_energy(st, ks) ==
  LET nodes == <<"ClipNode", "EnergyNode">>
      results == run_pipeline(st, ks, nodes)
  IN Outcome(results.err, results.msg,
             IF results.err = NoError THEN results.ret["energy"] ELSE None,
             <<"ClipNode()", "EnergyNode()">> \o results.trace)

\* good_sections()
good_sections(st, ks) ==
  LET nodes == <<"LocateGoodSectionsNode">>
      results == run_pipeline(st, ks, nodes)
  IN Outcome(results.err, results.msg,
             IF results.err = NoError THEN results.ret["good_sections"] ELSE None,
             <<"LocateGoodSectionsNode()">> \o results.trace)

\* The methods and properties the class body defines.
ElectricityMeterAttributes ==
  {"load", "identifier", "upstream_meter", "_load_meter_devices", "save",
   "device", "available_ac_types", "__repr__", "matches", "power_series",
   "voltage_series", "total_energy", "dropout_rate", "good_sections",
   "total_on_duration", "on_durations", "activity_distribution", "when_on",
   "on_off_events", "discrete_appliance_activations", "proportion_of_energy",
   "contiguous_sections", "clean_and_export", "_run_pipeline",
   "store", "keys", "appliances", "metadata", "meter_devices", "meters"}

\* self.proportion_of_energy(mains), for the attributes of self and mains.
proportion_of_energy(st, ks, mains_st, mains_ks) ==
  IF "good_timeframes" \notin ElectricityMeterAttributes
  THEN Outcome("AttributeError", "", None, <<"mains.good_timeframes">>)
  ELSE LET own == total_energy(st, ks)
           other == total_energy(mains_st, mains_ks)
       IN IF own.err # NoError
          THEN Outcome(own.err, own.msg, None, own.trace)
          ELSE IF other.err # NoError
          THEN Outcome(other.err, other.msg, None, own.trace \o other.trace)
          ELSE IF other.ret[1] = 0
          THEN Outcome("ZeroDivisionError", "", None,
                       own.trace \o other.trace)
          ELSE Outcome(NoError, "", Some(<<own.ret[1], other.ret[1]>>),
                       own.trace \o other.trace)

Query(op, m, arg, out) ==
  /\ last' = Call(op, m, arg, out.err, out.msg, out.ret, out.trace)
  /\ UNCHANGED <<constructed, store, keys, appliances, metadata,
                 meters, meter_devices, calls>>

\* meter.upstream_meter
UpstreamMeter(m) ==
  /\ constructed[m]
  /\ Query("upstream_meter", m, None, upstream_meter(metadata[m], meters))

\* meter.device
Device(m) ==
  /\ constructed[m]
  /\ Query("device", m, None, device(metadata[m], meter_devices))

\* meter.total_energy()
TotalEnergy(m) ==
  /\ constructed[m]
  /\ Query("total_energy", m, None, total_energy(store[m], keys[m]))

\* meter.good_sections()
GoodSections(m) ==
  /\ constructed[m]
  /\ Query("good_sections", m, None, good_sections(store[m], keys[m]))

\* meter.proportion_of_energy(mains)
ProportionOfEnergy(m, mains) ==
  /\ constructed[m]
  /\ constructed[mains]
  /\ Query("proportion_of_energy", m, mains,
           proportion_of_energy(store[m], keys[m], store[mains], keys[mains]))

Next ==
  \/ \E m \in MeterObjects : \E md \in ConstructMetadata : Construct(m, md)
  \/ \E m \in MeterObjects : \E s \in Stores : \E key \in StoreKeys(s) :
        Load(m, s, key)
  \/ \E m \in MeterObjects : UpstreamMeter(m)
  \/ \E m \in MeterObjects : Device(m)
  \/ \E m \in MeterObjects : TotalEnergy(m)
  \/ \E m \in MeterObjects : GoodSections(m)
  \/ \E m \in MeterObjects : \E mains \in MeterObjects :
        ProportionOfEnergy(m, mains)

Spec == Init /\ [][Next]_vars

(***************************************************************************)
(* Properties.  In each state, last describes the call that produced it:   *)
(* a query leaves the rest of the state as it found it, so a predicate on  *)
(* last and the other variables relates the call's outcome to the state it *)
(* ran in.                                                                 *)
(***************************************************************************)

NodeConstructions ==
  {"ClipNode()", "EnergyNode()", "LocateGoodSectionsNode()"}

PipelineQueryOnUnsetStore ==
  /\ last.op \in {"total_energy", "good_sections"}
  /\ store[last.m] = None

\* C1 (as stated): total_energy() or good_sections() on a meter whose store
\* is unset fails with the store-not-set error, and nothing (no pipeline
\* node, no Pipeline) was constructed before the error.
C1_NoNodeBeforeGuard ==
  PipelineQueryOnUnsetStore =>
    /\ last.err = "RuntimeError"
    /\ last.trace = <<>>

\* C1 (amended): total_energy() or good_sections() on a meter whose store is
\* unset fails with the store-not-set error (RuntimeError) before any
\* Pipeline is constructed or run; the pipeline nodes of the query have
\* already been constructed when the guard is evaluated.
C1_GuardBeforePipeline ==
  PipelineQueryOnUnsetStore =>
    /\ last.err = "RuntimeError"
    /\ last.ret = None
    /\ \A i \in 1..Len(last.trace) : last.trace[i] \in NodeConstructions
    /\ last.trace = IF last.op = "total_energy"
                    THEN <<"ClipNode()", "EnergyNode()">>
                    ELSE <<"LocateGoodSectionsNode()">>

C1_Witness ==
  /\ last.op = "total_energy"
  /\ store[last.m] = None
  /\ last.err = "RuntimeError"
  /\ Len(last.trace) = 2

SubmeterOfAbsent(m) == metadata[m].submeter_of = None

SubmeterOfInvalid(m) ==
  /\ metadata[m].submeter_of # None
  /\ metadata[m].submeter_of[1] < 1

\* C2 (as stated): upstream_meter fails before any registry lookup when
\* submeter_of is absent and when it is < 1, and the error raised for
\* submeter_of < 1 is of a different kind than the one raised for an absent
\* submeter_of, so that a caller can tell the two apart by kind.
C2_DistinctErrorKinds ==
  (last.op = "upstream_meter" /\ SubmeterOfInvalid(last.m)) =>
    /\ last.err # NoError
    /\ last.trace = <<>>
    /\ \A m \in MeterObjects :
         (constructed[m] /\ SubmeterOfAbsent(m)) =>
           /\ upstream_meter(metadata[m], meters).err # NoError
           /\ upstream_meter(metadata[m], meters).err # last.err

\* C2 (amended): upstream_meter fails with ValueError, before any registry
\* lookup, both when submeter_of is absent and when it is < 1; the two
\* failures are of the same error class and differ only in their message.
C2_ValueErrorBeforeLookup ==
  last.op = "upstream_meter" =>
    /\ SubmeterOfAbsent(last.m) =>
         /\ last.err = "ValueError"
         /\ last.msg = "This meter has no 'submeter_of' metadata attribute."
         /\ last.trace = <<>>
         /\ last.ret = None
    /\ SubmeterOfInvalid(last.m) =>
         /\ last.err = "ValueError"
         /\ last.msg = "'submeter_of' must be >= 1."
         /\ last.trace = <<>>
         /\ last.ret = None

C2_Witness ==
  /\ last.op = "upstream_meter"
  /\ SubmeterOfInvalid(last.m)
  /\ last.err = "ValueError"
  /\ \E m \in MeterObjects : constructed[m] /\ SubmeterOfAbsent(m)

\* C3: for a meter with submeter_of >= 1, upstream_meter looks up the
\* identity (submeter_of, upstream_meter_in_building if present else the
\* meter's own building, the meter's own dataset) in the registry; it
\* returns the meter registered there, and fails with the unknown-meter
\* error (KeyError) when no meter is registered under that identity.
C3_UpstreamResolution ==
  (/\ last.op = "upstream_meter"
   /\ metadata[last.m].submeter_of # None
   /\ metadata[last.m].submeter_of[1] >= 1) =>
    LET md == metadata[last.m]
        building == IF md.upstream_meter_in_building # None
                    THEN md.upstream_meter_in_building
                    ELSE md.building
        id == <<md.submeter_of, building, md.dataset>>
    IN /\ last.trace = <<"meters[]">>
       /\ IF id \in DOMAIN meters
          THEN last.err = NoError /\ last.ret = Some(meters[id])
          ELSE last.err = "KeyError" /\ last.ret = None

C3_Witness ==
  /\ last.op = "upstream_meter"
  /\ last.err = NoError
  /\ metadata[last.m].upstream_meter_in_building # None
  /\ metadata[last.m].upstream_meter_in_building # metadata[last.m].building
  /\ last.ret # Some(last.m)

\* The identity triple read off a meter's metadata.
IdentityOf(md) == <<md.instance, md.building, md.dataset>>

Registers(l) == l.op \in {"construct", "load"} /\ l.err = NoError

\* C4: a construction or successful load registers the meter under the
\* identity (instance, building, dataset) of its metadata, overwriting the
\* meter registered there before (last load wins); when that identity was
\* already a key of the registry the set of keys is unchanged; every other
\* entry is left as it was.
C4_RegisterOverwrites ==
  [][Registers(last') =>
       LET id == IdentityOf(metadata'[last'.m])
       IN /\ id \in DOMAIN meters'
          /\ meters'[id] = last'.m
          /\ DOMAIN meters' = DOMAIN meters \cup {id}
          /\ id \in DOMAIN meters =>
               Cardinality(DOMAIN meters') = Cardinality(DOMAIN meters)
          /\ \A other \in DOMAIN meters :
               other # id => meters'[other] = meters[other]]_vars

C4_Witness ==
  /\ last.op = "load"
  /\ last.err = NoError
  /\ \E m \in MeterObjects :
       /\ m # last.m
       /\ store[m] # None
       /\ IdentityOf(metadata[m]) = IdentityOf(metadata[last.m])
       /\ meters[IdentityOf(metadata[m])] = last.m

\* The entries of metadata['appliances'], [] when the key is absent.
ApplianceEntries(md) ==
  IF md.appliances = None THEN <<>> ELSE md.appliances[1]

\* C5: after every successful load, the appliances list holds exactly one
\* Appliance per entry of the loaded metadata['appliances'], in order, and
\* is empty when the key is absent.
C5_AppliancesMatchMetadata ==
  (last.op = "load" /\ last.err = NoError) =>
    LET entries == ApplianceEntries(metadata[last.m])
    IN /\ Len(appliances[last.m]) = Len(entries)
       /\ \A i \in 1..Len(entries) :
            appliances[last.m][i] = Appliance(entries[i])

Merges(l) ==
  /\ l.op = "load"
  /\ \E i \in 1..Len(l.trace) : l.trace[i] = "merge"

\* C6: the merge of a load is an additive union: no model name is removed,
\* the names of the store's table take the store's profiles, every other
\* name keeps its profile, and a load whose store's table is already in the
\* registry leaves the registry unchanged.  No other call changes it.
C6_MergeIsIdempotentUnion ==
  [][/\ \A n \in DOMAIN meter_devices : n \in DOMAIN meter_devices'
     /\ ~Merges(last') => meter_devices' = meter_devices
     /\ Merges(last') =>
          LET root == RootMeterDevices(last'.arg[1])
          IN /\ DOMAIN meter_devices' = DOMAIN meter_devices \cup DOMAIN root
             /\ \A n \in DOMAIN root : meter_devices'[n] = root[n]
             /\ \A n \in DOMAIN meter_devices \ DOMAIN root :
                  meter_devices'[n] = meter_devices[n]
             /\ (\A n \in DOMAIN root :
                   n \in DOMAIN meter_devices /\ meter_devices[n] = root[n])
                => meter_devices' = meter_devices]_vars

C6_Witness ==
  /\ Merges(last)
  /\ last.ret = Some(TRUE)
  /\ Cardinality(DOMAIN meter_devices) = 2

\* C7: a successful load caches in metadata['device'] the profile the
\* registry holds for the meter's device_model at that moment; no call on
\* another meter (in particular no later merge) changes a meter's cached
\* device; the device property answers the profile the registry holds now.
C7_DeviceSnapshot ==
  [][/\ \A m \in MeterObjects :
          ~(last'.op \in {"construct", "load"} /\ last'.m = m) =>
             metadata'[m] = metadata[m]
     /\ (last'.op = "load" /\ last'.err = NoError) =>
          metadata'[last'.m].device =
            Some(meter_devices'[metadata'[last'.m].device_model[1]])
     /\ last'.op = "device" =>
          LET md == metadata'[last'.m]
          IN IF md.device_model # None
                /\ md.device_model[1] \in DOMAIN meter_devices'
             THEN /\ last'.err = NoError
                  /\ last'.ret = Some(meter_devices'[md.device_model[1]])
             ELSE last'.err = "KeyError"]_vars

C7_Witness ==
  /\ last.op = "device"
  /\ last.err = NoError
  /\ metadata[last.m].device # None
  /\ metadata[last.m].device # last.ret

\* C8: after every successful load(store, key), keys is the primary key
\* followed by one key per entry of metadata['additional_channels'], in
\* order, each equal to the primary key with only its meter field replaced
\* by the channel number; nothing of an earlier load remains.
C8_KeysDerivedFromPrimary ==
  (last.op = "load" /\ last.err = NoError) =>
    LET key == last.arg[2]
        md == metadata[last.m]
        chans == IF md.additional_channels = None THEN <<>>
                 ELSE md.additional_channels[1]
    IN /\ Len(keys[last.m]) = 1 + Len(chans)
       /\ keys[last.m][1] = key
       /\ \A i \in 1..Len(chans) :
            keys[last.m][i + 1] = [key EXCEPT ![4] = chans[i]]

C8_Witness ==
  /\ last.op = "load"
  /\ last.err = NoError
  /\ Len(keys[last.m]) = 3
  /\ keys[last.m][3] # keys[last.m][2]

\* C9: proportion_of_energy(mains), when the mains meter's total energy is
\* 0, fails with the division-by-zero error and returns no value.
C9_ZeroMainsRaisesDivisionError ==
  (/\ last.op = "proportion_of_energy"
   /\ store[last.m] # None
   /\ store[last.arg] # None
   /\ StoreEnergy(store[last.arg][1], keys[last.arg][1]) = 0) =>
    /\ last.err = "ZeroDivisionError"
    /\ last.ret = None

\* C10 (as stated): every registry entry is keyed by the current identity
\* of the meter it maps to.
C10_EntriesAreCurrent ==
  \A id \in DOMAIN meters : IdentityOf(metadata[meters[id]]) = id

\* C10 (amended): every registry entry of a meter that has never been
\* loaded is keyed by that meter's current identity; an entry of a loaded
\* meter may be keyed by an identity the meter had before the load (load
\* registers the new identity and removes nothing).
C10_EntriesCurrentUntilLoad ==
  \A id \in DOMAIN meters :
    \/ IdentityOf(metadata[meters[id]]) = id
    \/ store[meters[id]] # None

C10_Witness ==
  \E id \in DOMAIN meters :
    /\ IdentityOf(metadata[meters[id]]) # id
    /\ store[meters[id]] # None
    /\ id = IdentityOf(EmptyMetadata)
====
